---------------------------- MODULE Spec2Model ----------------------------
(***************************************************************************)
(* A model of py-linear-DAEs: the LinearDAE class                          *)
(* (src/linear_daes/_linear_daes.py) and the frequency-response functions  *)
(* of src/linear_daes/_bode_plot.py.                                       *)
(*                                                                         *)
(* A numpy array is a record [shape, data]: shape is the tuple of its      *)
(* dimensions, data the rows of a two-dimensional array (a sequence of     *)
(* sequences); an array of another rank keeps only its shape, which is all *)
(* the code reads of it before it raises.                                  *)
(*                                                                         *)
(* Real arithmetic is exact.  The matrices given to the determinant and to *)
(* the generalized eigenvalue solver have small integer entries and are    *)
(* upper triangular, or become so when rows and columns are permuted: on   *)
(* these LAPACK's floating-point result is the exact one (no rounding      *)
(* occurs in the LU factorisation, and the balancing step of the QZ        *)
(* algorithm isolates every eigenvalue), so the model and the program      *)
(* agree on them.                                                          *)
(***************************************************************************)
EXTENDS Integers, Sequences, FiniteSets, TLC

VARIABLES
    sys,    \* the LinearDAE object the caller holds, or NoSystem
    ret,    \* the outcome of the last call: what was called, on what, and
            \* what it raised or returned
    caller, \* what the calling script keeps between its calls, or NoCaller
    plot    \* the BodePlot object the caller holds, or NoPlot

vars == <<sys, ret, caller, plot>>

---------------------------------------------------------------------------
(* Bounds of the model.                                                    *)

\* The row and column counts of the two-dimensional arrays callers pass.
Dims == {1, 2}

\* The entries of the matrices callers pass: those on the main diagonal of E
\* and A and all those of B, C and D, and those above the diagonal of E and A.
Vals == {0, 1}

UpperVals == {0}

\* The labels callers pass.
Labels == {"", "G"}

---------------------------------------------------------------------------
(* Exceptions: the messages of the ValueErrors the code raises, and of     *)
(* numpy's LinAlgError.                                                    *)

NoError == ""
ShapeError == "Inconsistent shape."
RegularityError == "System is not regular."
LinAlgError == "Singular matrix"

---------------------------------------------------------------------------
(* numpy arrays.                                                           *)

ndim(a) == Len(a.shape)

\* An array that is not two-dimensional: only its shape is ever read.
ArrayND(shape) == [shape |-> shape, data |-> <<>>]

\* numpy.array([[]]): one row, no column.
EmptyDefault == [shape |-> <<1, 0>>, data |-> << <<>> >>]

array_equal(a, b) == a.shape = b.shape /\ a.data = b.data

\* A default of ones everywhere (numpy.ones) in place of the identity.
eye_AllOnes(r, c) ==
    [shape |-> <<r, c>>, data |-> [i \in 1..r |-> [j \in 1..c |-> 1]]]

\* numpy.eye(r, c)
eye(r, c) ==
    [shape |-> <<r, c>>, data |-> [i \in 1..r |-> [j \in 1..c |-> IF i = j THEN 1 ELSE 0]]]

\* The r-by-c matrix whose every entry is v (numpy.full, zeros, ones).
Full(r, c, v) == [shape |-> <<r, c>>, data |-> [i \in 1..r |-> [j \in 1..c |-> v]]]

\* The r-by-c upper triangular matrices with diagonal entries in Vals and
\* entries above the diagonal in UpperVals.
Triangular(r, c) ==
    { [shape |-> <<r, c>>, data |-> d] :
        d \in { m \in [1..r -> [1..c -> Vals \cup UpperVals \cup {0}]] :
                  \A i \in 1..r : \A j \in 1..c :
                      /\ i > j => m[i][j] = 0
                      /\ i = j => m[i][j] \in Vals
                      /\ i < j => m[i][j] \in UpperVals } }

\* The r-by-c matrices callers pass as E and A, and as B, C and D.
StateMatrices(r, c) == Triangular(r, c)

IOMatrices(r, c) == { Full(r, c, v) : v \in Vals }

\* The shapes of the arrays callers pass where a matrix is expected.
Shapes2D == { <<r, c>> : r \in Dims, c \in Dims }

ShapesND == { <<2>>, <<1, 1, 1>> }

Shapes == Shapes2D \cup ShapesND

\* One array of every shape: what a shape check can tell apart.
Sample(shape) == IF Len(shape) = 2 THEN Full(shape[1], shape[2], 0) ELSE ArrayND(shape)

---------------------------------------------------------------------------
(* numpy.linalg.det and scipy.linalg.eigvals.                              *)

\* The matrix without row i and column j.
Minor(d, n, i, j) ==
    [a \in 1..(n - 1) |-> [b \in 1..(n - 1) |->
        d[IF a < i THEN a ELSE a + 1][IF b < j THEN b ELSE b + 1]]]

RECURSIVE DetRows(_, _)
DetRows(d, n) ==
    IF n = 0 THEN 1
    ELSE LET Term(j) == (IF j % 2 = 1 THEN 1 ELSE -1) * d[1][j] * DetRows(Minor(d, n, 1, j), n - 1)
             RECURSIVE Sum(_)
             Sum(j) == IF j = 0 THEN 0 ELSE Term(j) + Sum(j - 1)
         IN  Sum(n)

\* numpy.linalg.det of a square matrix.
det(M) == DetRows(M.data, M.shape[1])

\* k * E - A, entry by entry, for an integer k.
ShiftedRows(E, A, k) ==
    [i \in 1..E.shape[1] |-> [j \in 1..E.shape[2] |-> k * E.data[i][j] - A.data[i][j]]]

\* numpy.any(numpy.isnan(scipy.linalg.eigvals(A, E))) for a square pencil.
\* scipy returns alpha/beta for the diagonal pairs (alpha, beta) of the
\* generalized Schur form of (A, E), and nan for a pair (0, 0).  There is
\* such a pair exactly when det(s * E - A), the product of the factors
\* (s * beta - alpha) up to a constant, is the zero polynomial, that is,
\* when it vanishes at n + 1 points.
any_isnan_eigvals(A, E) ==
    \A k \in 0..A.shape[1] : DetRows(ShiftedRows(E, A, k), A.shape[1]) = 0

---------------------------------------------------------------------------
(* LinearDAE: the object and its derived flags.                            *)

NoSystem == [kind |-> "none"]

\* self._isODE, as __init__ and the E setter compute it.
ComputeIsODE(n_r, n_c, E) == n_r = n_c /\ ~(det(E) = 0)

\* The flag without the branch for n_r # n_c: a system that is not an ODE is
\* regular unless it is square with a singular pencil.
ComputeIsRegular_NoShapeBranch(isODE, n_r, n_c, A, E) ==
    IF isODE THEN TRUE
    ELSE ~(n_r = n_c /\ any_isnan_eigvals(A, E))

\* self._isRegular, as __init__ and the E and A setters compute it.
ComputeIsRegular(isODE, n_r, n_c, A, E) ==
    IF isODE THEN TRUE
    ELSE IF ~(n_r = n_c) THEN FALSE
    ELSE ~any_isnan_eigvals(A, E)

\* The E that __init__ stores: an E equal to the default is replaced by the
\* identity of A's shape.
StoredE(A, E) ==
    IF array_equal(E, EmptyDefault) THEN eye(A.shape[1], A.shape[2]) ELSE E

\* The shape checks of __init__, in order; TRUE when one of them raises.
InitRaises(A, B, C, D, E) ==
    \/ ~(ndim(E) = 2) \/ ~(ndim(A) = 2) \/ ~(ndim(B) = 2)
    \/ ~(ndim(C) = 2) \/ ~(ndim(D) = 2)
    \/ ~(StoredE(A, E).shape = A.shape)
    \/ ~(A.shape[1] = B.shape[1])
    \/ ~(A.shape[2] = C.shape[2])
    \/ ~(B.shape[2] = D.shape[2])
    \/ ~(C.shape[1] = D.shape[1])

\* LinearDAE(A, B, C, D, E, label) when no check raises.
NewSystem(A, B, C, D, E, label) ==
    LET E0 == StoredE(A, E)
        n_r == A.shape[1]
        n_c == A.shape[2]
        ode == ComputeIsODE(n_r, n_c, E0)
    IN  [kind |-> "LinearDAE", label |-> label,
         E |-> E0, A |-> A, B |-> B, C |-> C, D |-> D,
         n_r |-> n_r, n_c |-> n_c, m |-> B.shape[2], p |-> C.shape[1],
         isODE |-> ode,
         isRegular |-> ComputeIsRegular(ode, n_r, n_c, A, E0)]


---------------------------------------------------------------------------
(* Arrays that hold nan, and the two statements of the E and A setters     *)
(* that derive the flags from what is stored.                              *)

FiniteError == "array must not contain infs or NaNs"

\* numpy.nan, and the r-by-c array whose every entry is nan.
NaN == [kind |-> "nan"]

NaNArray(r, c) ==
    [shape |-> <<r, c>>, data |-> [i \in 1..r |-> [j \in 1..c |-> NaN]], nonfinite |-> TRUE]

HasNaN(M) == "nonfinite" \in DOMAIN M

\* self._isODE = True if self.n_r == self.n_c and not det(self._E) == 0
\* else False.  The determinant of an array with a nan is nan, and
\* nan == 0 is False.
StatementIsODE(self) ==
    [self EXCEPT !.isODE = /\ self.n_r = self.n_c
                           /\ (HasNaN(self.E) \/ ~(det(self.E) = 0))]

\* The if statement that assigns self._isRegular.  scipy.linalg.eigvals
\* validates its arguments and raises ValueError for an array with a nan.
StatementIsRegular(self) ==
    IF self.isODE THEN [raised |-> NoError, self |-> [self EXCEPT !.isRegular = TRUE]]
    ELSE IF ~(self.n_r = self.n_c)
    THEN [raised |-> NoError, self |-> [self EXCEPT !.isRegular = FALSE]]
    ELSE IF HasNaN(self.A) \/ HasNaN(self.E)
    THEN [raised |-> FiniteError, self |-> self]
    ELSE [raised |-> NoError,
          self |-> [self EXCEPT !.isRegular = ~any_isnan_eigvals(self.A, self.E)]]

---------------------------------------------------------------------------
(* The E, A, B, C and D setters: what the call raises and the object after *)
(* it.  The E and A setters check the shape, store the array, and then run *)
(* the statements that derive the flags; when the eigenvalue computation   *)
(* raises, the array is stored already and the flags stay as they were.    *)

\* The E setter updating isODE and leaving isRegular as it was.
SetE_StaleRegular(self, E) ==
    IF self.E.shape = E.shape
    THEN [raised |-> NoError, self |-> StatementIsODE([self EXCEPT !.E = E])]
    ELSE [raised |-> ShapeError, self |-> self]

SetE(self, E) ==
    IF self.E.shape = E.shape
    THEN StatementIsRegular(StatementIsODE([self EXCEPT !.E = E]))
    ELSE [raised |-> ShapeError, self |-> self]

SetA(self, A) ==
    IF self.A.shape = A.shape
    THEN StatementIsRegular([self EXCEPT !.A = A])
    ELSE [raised |-> ShapeError, self |-> self]

\* The B setter storing the matrix before it checks the shape.
SetB_StoresFirst(self, B) ==
    [raised |-> IF self.B.shape = B.shape THEN NoError ELSE ShapeError,
     self |-> [self EXCEPT !.B = B]]

SetB(self, B) ==
    IF self.B.shape = B.shape
    THEN [raised |-> NoError, self |-> [self EXCEPT !.B = B]]
    ELSE [raised |-> ShapeError, self |-> self]

\* The C setter storing into the field of B.
SetC_WrongField(self, C) ==
    IF self.C.shape = C.shape
    THEN [raised |-> NoError, self |-> [self EXCEPT !.B = C]]
    ELSE [raised |-> ShapeError, self |-> self]

SetC(self, C) ==
    IF self.C.shape = C.shape
    THEN [raised |-> NoError, self |-> [self EXCEPT !.C = C]]
    ELSE [raised |-> ShapeError, self |-> self]

\* The D setter without its shape check.
SetD_Unchecked(self, D) == [raised |-> NoError, self |-> [self EXCEPT !.D = D]]

SetD(self, D) ==
    IF self.D.shape = D.shape
    THEN [raised |-> NoError, self |-> [self EXCEPT !.D = D]]
    ELSE [raised |-> ShapeError, self |-> self]

\* The label setter.
SetLabelOf(self, new_label) == [self EXCEPT !.label = new_label]

---------------------------------------------------------------------------
(* Complex numbers: a complex rational (re + im*j) / den, with den > 0 and *)
(* the three integers coprime.                                             *)

Abs(n) == IF n < 0 THEN -n ELSE n

RECURSIVE Gcd(_, _)
Gcd(a, b) == IF b = 0 THEN a ELSE Gcd(b, a % b)

Cx(re, im, den) ==
    LET g == Gcd(Gcd(Abs(re), Abs(im)), Abs(den))
        sgn == IF den < 0 THEN -1 ELSE 1
    IN  [re |-> sgn * (re \div g), im |-> sgn * (im \div g), den |-> sgn * (den \div g)]

\* An integer, and the imaginary unit, as complex numbers.
CInt(n) == Cx(n, 0, 1)

J == Cx(0, 1, 1)

CAdd(z, w) == Cx(z.re * w.den + w.re * z.den, z.im * w.den + w.im * z.den, z.den * w.den)

CSub(z, w) == Cx(z.re * w.den - w.re * z.den, z.im * w.den - w.im * z.den, z.den * w.den)

CMul(z, w) == Cx(z.re * w.re - z.im * w.im, z.re * w.im + z.im * w.re, z.den * w.den)

\* z / w for w # 0: z * conj(w) / |w|^2.
CDiv(z, w) ==
    Cx((z.re * w.re + z.im * w.im) * w.den, (z.im * w.re - z.re * w.im) * w.den,
       z.den * (w.re * w.re + w.im * w.im))

CZero == CInt(0)

\* complex(real=x, imag=y) of two real numbers.
complex(x, y) == CAdd(x, CMul(J, y))

---------------------------------------------------------------------------
(* Matrix arithmetic on the rows of complex matrices.                      *)

\* E * s - A: the scalar times every entry of E, minus the entry of A.
Pencil(E, A, s) ==
    [i \in 1..E.shape[1] |-> [j \in 1..E.shape[2] |->
        CSub(CMul(CInt(E.data[i][j]), s), CInt(A.data[i][j]))]]

RECURSIVE CDetRows(_, _)
CDetRows(d, n) ==
    IF n = 0 THEN CInt(1)
    ELSE LET Term(j) == CMul(CMul(CInt(IF j % 2 = 1 THEN 1 ELSE -1), d[1][j]),
                             CDetRows(Minor(d, n, 1, j), n - 1))
             RECURSIVE Sum(_)
             Sum(j) == IF j = 0 THEN CZero ELSE CAdd(Term(j), Sum(j - 1))
         IN  Sum(n)

\* numpy.linalg.inv raises LinAlgError on a singular matrix.
IsSingular(d, n) == CDetRows(d, n) = CZero

\* numpy.linalg.inv of a non-singular n-by-n matrix: the transposed
\* cofactors over the determinant.
inv(d, n) ==
    LET dt == CDetRows(d, n)
    IN  [i \in 1..n |-> [j \in 1..n |->
            CDiv(CMul(CInt(IF (i + j) % 2 = 0 THEN 1 ELSE -1),
                      CDetRows(Minor(d, n, j, i), n - 1)), dt)]]

\* X @ Y for X with r rows, Y with c columns and inner dimension k.
matmul(X, Y, r, k, c) ==
    LET RECURSIVE Dot(_, _, _)
        Dot(i, j, l) == IF l = 0 THEN CZero ELSE CAdd(CMul(X[i][l], Y[l][j]), Dot(i, j, l - 1))
    IN  [i \in 1..r |-> [j \in 1..c |-> Dot(i, j, k)]]

\* The rows of an integer matrix as complex numbers.
ToComplex(M) == [i \in 1..M.shape[1] |-> [j \in 1..M.shape[2] |-> CInt(M.data[i][j])]]

matadd(X, Y, r, c) == [i \in 1..r |-> [j \in 1..c |-> CAdd(X[i][j], Y[i][j])]]

---------------------------------------------------------------------------
(* LinearDAE.tf and LinearDAE.get_tf.                                      *)

\* The product without the feedthrough term: C @ inv(E * s - A) @ B.
TransferMatrix_NoFeedthrough(self, s) ==
    LET X == matmul(inv(Pencil(self.E, self.A, s), self.n_r), ToComplex(self.B),
                    self.n_r, self.n_r, self.m)
    IN  [kind |-> "ndarray", shape |-> <<self.p, self.m>>,
         data |-> matmul(ToComplex(self.C), X, self.p, self.n_c, self.m)]

\* C @ inv(E * s - A) @ B + D
TransferMatrix(self, s) ==
    LET X == matmul(inv(Pencil(self.E, self.A, s), self.n_r), ToComplex(self.B),
                    self.n_r, self.n_r, self.m)
    IN  [kind |-> "ndarray", shape |-> <<self.p, self.m>>,
         data |-> matadd(matmul(ToComplex(self.C), X, self.p, self.n_c, self.m),
                         ToComplex(self.D), self.p, self.m)]

\* The array tf returns when the stored E or A holds nan: every entry of
\* E * s - A is nan, numpy.linalg.inv returns nan entries without raising,
\* and so is every entry of the products and the sum.
NaNResponse(self) ==
    [kind |-> "ndarray", shape |-> <<self.p, self.m>>,
     data |-> [i \in 1..self.p |-> [j \in 1..self.m |-> NaN]]]

\* self.tf(s): what it raises and what it returns.
tf(self, s) ==
    IF self.isRegular
    THEN IF HasNaN(self.E) \/ HasNaN(self.A)
         THEN [raised |-> NoError, value |-> NaNResponse(self)]
         ELSE IF IsSingular(Pencil(self.E, self.A, s), self.n_r)
         THEN [raised |-> LinAlgError, value |-> [kind |-> "None"]]
         ELSE [raised |-> NoError, value |-> TransferMatrix(self, s)]
    ELSE [raised |-> RegularityError, value |-> [kind |-> "None"]]

\* The bound method self.tf.
BoundTf == [kind |-> "method", name |-> "tf"]

\* get_tf handing out the method whatever the flag.
get_tf_Unguarded(self) == [kind |-> "method", name |-> "tf"]

\* self.get_tf()
get_tf(self) == IF self.isRegular THEN BoundTf ELSE [kind |-> "None"]

\* The truth value of an object whose class defines no __bool__.
bool_ObjectDefault(self) == TRUE

\* self.__bool__(): bool(system), the test of "if system:".
bool(self) == self.isRegular

---------------------------------------------------------------------------
(* complex_to_dB, complex_to_deg, eval_fr and eval_fr_range.               *)

FRError == "Can't evaluate the frequency response of a DAE that is not regular."
\* numpy.linspace, which numpy.logspace calls, rejects a negative num.
SamplesError(num) == "Number of samples, " \o ToString(num) \o ", must be non-negative."

\* 20 * log10(|z|) = 10 * log10(|z|^2): the number is kept as the rational
\* |z|^2 whose logarithm it is (-inf when z = 0).
dB(z) ==
    LET q == Cx(z.re * z.re + z.im * z.im, 0, z.den * z.den)
    IN  [ten_log10_of |-> <<q.re, q.den>>]

\* degrees(angle(z)), with angle(z) = atan2(im, re) in (-180, 180]: the
\* number is kept as the direction (y, x) in lowest terms whose atan2 it is;
\* angle(0) = 0 = atan2(0, 1).
deg(z) ==
    LET g == Gcd(Abs(z.re), Abs(z.im))
    IN  IF g = 0 THEN [degrees_atan2 |-> <<0, 1>>]
        ELSE [degrees_atan2 |-> <<z.im \div g, z.re \div g>>]

\* complex_to_dB(Z) and complex_to_deg(Z) of a matrix, entry by entry.
complex_to_dB(Z) ==
    [kind |-> "ndarray", shape |-> Z.shape,
     data |-> [i \in 1..Z.shape[1] |-> [j \in 1..Z.shape[2] |-> dB(Z.data[i][j])]]]

complex_to_deg(Z) ==
    [kind |-> "ndarray", shape |-> Z.shape,
     data |-> [i \in 1..Z.shape[1] |-> [j \in 1..Z.shape[2] |-> deg(Z.data[i][j])]]]

\* eval_fr without its own test of isRegular, leaving the refusal to tf.
eval_fr_Delegates(system, w) ==
    LET tf_eval == tf(system, w)
    IN  IF tf_eval.raised # NoError
        THEN [raised |-> tf_eval.raised, value |-> [kind |-> "None"]]
        ELSE [raised |-> NoError,
              value |-> [kind |-> "tuple",
                         mag |-> complex_to_dB(tf_eval.value),
                         phase |-> complex_to_deg(tf_eval.value)]]

\* eval_fr(system, w): what it raises, and the pair it returns.
eval_fr(system, w) ==
    IF ~system.isRegular
    THEN [raised |-> FRError, value |-> [kind |-> "None"]]
    ELSE LET tf_eval == tf(system, w)
         IN  IF tf_eval.raised # NoError
             THEN [raised |-> tf_eval.raised, value |-> [kind |-> "None"]]
             ELSE [raised |-> NoError,
                   value |-> [kind |-> "tuple",
                              mag |-> complex_to_dB(tf_eval.value),
                              phase |-> complex_to_deg(tf_eval.value)]]

RECURSIVE Pow(_, _)
Pow(b, n) == IF n = 0 THEN 1 ELSE b * Pow(b, n - 1)

\* 10 ** x for an integer x.
Pow10(x) == IF x >= 0 THEN Cx(Pow(10, x), 0, 1) ELSE Cx(1, 0, Pow(10, -x))

\* The sample exponents of numpy.linspace(start, stop, num) are integers.
IntegralGrid(start, stop, num) ==
    IF num <= 1 THEN TRUE ELSE (stop - start) % (num - 1) = 0

\* numpy.logspace(start, stop, num) for num >= 0 on an integral grid:
\* 10 ** (start + k * step), step = (stop - start) / (num - 1), k < num.
logspace(start, stop, num) ==
    [k \in 1..num |->
        Pow10(IF num = 1 THEN start ELSE start + ((k - 1) * (stop - start)) \div (num - 1))]

\* numpy.array of a list of p-by-m arrays.
Stack(list, p, m) ==
    [kind |-> "ndarray",
     shape |-> IF Len(list) = 0 THEN <<0>> ELSE <<Len(list), p, m>>,
     data |-> list]

\* The loop of eval_fr_range from the k-th frequency on: an exception of
\* eval_fr ends it.
RECURSIVE SweepLoop(_, _, _, _, _)
SweepLoop(system, w_range, k, magnitude_range, phase_range) ==
    IF k > Len(w_range)
    THEN [raised |-> NoError,
          value |-> [kind |-> "tuple",
                     mag |-> Stack(magnitude_range, system.p, system.m),
                     phase |-> Stack(phase_range, system.p, system.m)]]
    ELSE LET r == eval_fr(system, complex(CZero, w_range[k]))
         IN  IF r.raised # NoError
             THEN [raised |-> r.raised, value |-> [kind |-> "None"]]
             ELSE SweepLoop(system, w_range, k + 1,
                            Append(magnitude_range, r.value.mag.data),
                            Append(phase_range, r.value.phase.data))

\* eval_fr_range whose loop stops one frequency short.
eval_fr_range_DropsLast(system, w_start, w_end, w_num_points) ==
    IF ~system.isRegular
    THEN [raised |-> FRError, value |-> [kind |-> "None"]]
    ELSE IF w_num_points < 0
    THEN [raised |-> SamplesError(w_num_points), value |-> [kind |-> "None"]]
    ELSE SweepLoop(system, logspace(w_start, w_end, w_num_points - 1), 1, <<>>, <<>>)

\* eval_fr_range(system, w_start, w_end, w_num_points)
eval_fr_range(system, w_start, w_end, w_num_points) ==
    IF ~system.isRegular
    THEN [raised |-> FRError, value |-> [kind |-> "None"]]
    ELSE IF w_num_points < 0
    THEN [raised |-> SamplesError(w_num_points), value |-> [kind |-> "None"]]
    ELSE SweepLoop(system, logspace(w_start, w_end, w_num_points), 1, <<>>, <<>>)

---------------------------------------------------------------------------
(* The calls a caller makes, one action each.                              *)

None == [kind |-> "None"]

\* The arrays a caller passes with a given shape, E and A drawn from
\* StateMatrices, B, C and D from IOMatrices.
StateArrays(shape) ==
    IF shape \in Shapes2D THEN StateMatrices(shape[1], shape[2]) ELSE {Sample(shape)}

IOArrays(shape) ==
    IF shape \in Shapes2D THEN IOMatrices(shape[1], shape[2]) ELSE {Sample(shape)}

\* The arrays assigned: those of StateArrays and the array of nan.
AssignedArrays(shape) ==
    StateArrays(shape) \cup
        (IF shape \in Shapes2D THEN {NaNArray(shape[1], shape[2])} ELSE {})

\* What a caller passes as E: nothing, or an array; an array may have the
\* shape of the default, (1, 0).
EShapes == Shapes \cup {EmptyDefault.shape}

Returned(op, arg, value) == [op |-> op, arg |-> arg, raised |-> NoError, value |-> value]

Raised(op, arg, error) == [op |-> op, arg |-> arg, raised |-> error, value |-> None]

\* system = LinearDAE(A, B, C, D[, E][, label]): the one construction of a
\* behaviour; when it raises the caller holds no object and calls nothing.
Construct ==
    /\ sys = NoSystem
    /\ ret.op = ""
    /\ \E sA \in Shapes, sB \in Shapes, sC \in Shapes, sD \in Shapes,
          sE \in EShapes, E_given \in BOOLEAN, label \in Labels :
        LET shapeE == IF E_given THEN sE ELSE EmptyDefault.shape
            arg == [A |-> sA, B |-> sB, C |-> sC, D |-> sD, E |-> shapeE,
                    E_given |-> E_given]
        IN  /\ ~E_given => sE = EmptyDefault.shape
            /\ IF InitRaises(Sample(sA), Sample(sB), Sample(sC), Sample(sD), Sample(shapeE))
               THEN /\ sys' = NoSystem
                    /\ ret' = Raised("__init__", arg, ShapeError)
               ELSE \E A \in StateArrays(sA), B \in IOArrays(sB), C \in IOArrays(sC),
                       D \in IOArrays(sD), E \in StateArrays(shapeE) :
                        /\ sys' = NewSystem(A, B, C, D, E, label)
                        /\ ret' = Returned("__init__", arg, None)
    /\ UNCHANGED <<caller, plot>>

AssignE ==
    /\ sys # NoSystem
    /\ \E s \in Shapes : \E E \in AssignedArrays(s) :
        LET r == SetE(sys, E)
        IN  /\ sys' = r.self
            /\ ret' = [op |-> "E.setter", arg |-> s, raised |-> r.raised, value |-> None]
    /\ UNCHANGED <<caller, plot>>

AssignA ==
    /\ sys # NoSystem
    /\ \E s \in Shapes : \E A \in AssignedArrays(s) :
        LET r == SetA(sys, A)
        IN  /\ sys' = r.self
            /\ ret' = [op |-> "A.setter", arg |-> s, raised |-> r.raised, value |-> None]
    /\ UNCHANGED <<caller, plot>>

AssignB ==
    /\ sys # NoSystem
    /\ \E s \in Shapes : \E B \in IOArrays(s) :
        LET r == SetB(sys, B)
        IN  /\ sys' = r.self
            /\ ret' = [op |-> "B.setter", arg |-> s, raised |-> r.raised, value |-> None]
    /\ UNCHANGED <<caller, plot>>

AssignC ==
    /\ sys # NoSystem
    /\ \E s \in Shapes : \E C \in IOArrays(s) :
        LET r == SetC(sys, C)
        IN  /\ sys' = r.self
            /\ ret' = [op |-> "C.setter", arg |-> s, raised |-> r.raised, value |-> None]
    /\ UNCHANGED <<caller, plot>>

AssignD ==
    /\ sys # NoSystem
    /\ \E s \in Shapes : \E D \in IOArrays(s) :
        LET r == SetD(sys, D)
        IN  /\ sys' = r.self
            /\ ret' = [op |-> "D.setter", arg |-> s, raised |-> r.raised, value |-> None]
    /\ UNCHANGED <<caller, plot>>

AssignLabel ==
    /\ sys # NoSystem
    /\ \E l \in Labels :
        /\ sys' = SetLabelOf(sys, l)
        /\ ret' = Returned("label.setter", l, None)
    /\ UNCHANGED <<caller, plot>>

\* The complex frequencies callers evaluate at: 0, 1 and j.
SPoints == {CInt(0), CInt(1), J}

\* system.tf(s)
CallTf ==
    /\ sys # NoSystem
    /\ \E s \in SPoints :
        LET r == tf(sys, s)
        IN  ret' = [op |-> "tf", arg |-> s, raised |-> r.raised, value |-> r.value]
    /\ UNCHANGED <<sys, caller, plot>>

\* system.get_tf()
CallGetTf ==
    /\ sys # NoSystem
    /\ ret' = Returned("get_tf", None, get_tf(sys))
    /\ UNCHANGED <<sys, caller, plot>>

\* bool(system)
CallBool ==
    /\ sys # NoSystem
    /\ ret' = Returned("__bool__", None, [kind |-> "bool", value |-> bool(sys)])
    /\ UNCHANGED <<sys, caller, plot>>

---------------------------------------------------------------------------
(* The specification: construction, then any sequence of calls.            *)

NoCaller == [kind |-> "none"]

NoPlot == [kind |-> "none"]

NoCall == Returned("", None, None)

Init ==
    /\ sys = NoSystem
    /\ ret = NoCall
    /\ caller = NoCaller
    /\ plot = NoPlot

Next ==
    \/ Construct
    \/ AssignE
    \/ AssignA
    \/ AssignB
    \/ AssignC
    \/ AssignD
    \/ AssignLabel
    \/ CallGetTf
    \/ CallBool

Spec == Init /\ [][Next]_vars

---------------------------------------------------------------------------
(* Claims about construction and assignment, checked under Spec.           *)

SetterOps == {"E.setter", "A.setter", "B.setter", "C.setter", "D.setter"}

\* The shape of the stored matrix a setter replaces.
StoredShape(self, op) ==
    CASE op = "E.setter" -> self.E.shape
      [] op = "A.setter" -> self.A.shape
      [] op = "B.setter" -> self.B.shape
      [] op = "C.setter" -> self.C.shape
      [] op = "D.setter" -> self.D.shape

\* The five shape relations on the arrays passed to the constructor.
ShapesConsistent(a) ==
    /\ Len(a.A) = 2 /\ Len(a.B) = 2 /\ Len(a.C) = 2 /\ Len(a.D) = 2 /\ Len(a.E) = 2
    /\ a.E = a.A
    /\ a.A[1] = a.B[1]
    /\ a.A[2] = a.C[2]
    /\ a.B[2] = a.D[2]
    /\ a.C[1] = a.D[1]

\* The same relations when E is left out: only those among A, B, C and D.
ShapesConsistentNoE(a) ==
    /\ Len(a.A) = 2 /\ Len(a.B) = 2 /\ Len(a.C) = 2 /\ Len(a.D) = 2
    /\ a.A[1] = a.B[1]
    /\ a.A[2] = a.C[2]
    /\ a.B[2] = a.D[2]
    /\ a.C[1] = a.D[1]

\* C1: construction succeeds exactly when all five arrays are
\* two-dimensional and the five shape relations hold; on success n_r, n_c,
\* m and p are the dimensions of A, B and C; otherwise the shape error is
\* raised and the caller holds no object.
C1_ConstructionIffShapes ==
    ret.op = "__init__" =>
        LET a == ret.arg
            ok == IF a.E_given THEN ShapesConsistent(a) ELSE ShapesConsistentNoE(a)
        IN  /\ (ret.raised = NoError) <=> ok
            /\ ret.raised = NoError =>
                /\ sys # NoSystem
                /\ sys.n_r = a.A[1] /\ sys.n_c = a.A[2]
                /\ sys.m = a.B[2] /\ sys.p = a.C[1]
            /\ ret.raised # NoError => ret.raised = ShapeError /\ sys = NoSystem

\* not numpy.linalg.det(E) == 0: the determinant of an array with a nan is
\* nan, which is not equal to 0.
DetNonzero(E) == HasNaN(E) \/ det(E) # 0

\* scipy.linalg.eigvals(A, E) returns eigenvalues, none of them nan.
EigvalsWithoutNaN(A, E) == ~HasNaN(A) /\ ~HasNaN(E) /\ ~any_isnan_eigvals(A, E)

\* C2: after construction and any sequence of successful and failed
\* assignments, the stored flags describe the stored matrices: isODE iff
\* the system is square and det(E) # 0; isRegular iff isODE, or the system
\* is square and the eigenvalues of the stored (A, E) hold no NaN.
C2_FlagsMatchMatrices ==
    sys # NoSystem =>
        /\ sys.isODE <=> (sys.n_r = sys.n_c /\ DetNonzero(sys.E))
        /\ sys.isRegular <=>
             (sys.isODE \/ (sys.n_r = sys.n_c /\ EigvalsWithoutNaN(sys.A, sys.E)))

\* C3: assigning a matrix whose shape differs from the stored one raises the
\* shape error and leaves the whole object as it was.
C3_RejectedAssignmentChangesNothing ==
    [][ (ret'.op \in SetterOps /\ sys # NoSystem /\ ret'.arg # StoredShape(sys, ret'.op))
            => (ret'.raised = ShapeError /\ sys' = sys) ]_vars

\* An assignment of a matrix of another shape has just been rejected.
C3_Witness ==
    /\ ret.op \in SetterOps /\ ret.raised = ShapeError
    /\ ret.arg # StoredShape(sys, ret.op)

\* The five shape relations and the derived dimensions of a stored system.
ShapeInvariant(self) ==
    /\ ndim(self.E) = 2 /\ ndim(self.A) = 2 /\ ndim(self.B) = 2
    /\ ndim(self.C) = 2 /\ ndim(self.D) = 2
    /\ self.E.shape = self.A.shape
    /\ self.A.shape[1] = self.B.shape[1]
    /\ self.A.shape[2] = self.C.shape[2]
    /\ self.B.shape[2] = self.D.shape[2]
    /\ self.C.shape[1] = self.D.shape[1]
    /\ <<self.n_r, self.n_c>> = self.A.shape
    /\ self.m = self.B.shape[2]
    /\ self.p = self.C.shape[1]

AllShapes(self) == <<self.E.shape, self.A.shape, self.B.shape, self.C.shape, self.D.shape>>

\* C4: in every state after construction the five shape relations hold,
\* n_r, n_c, m, p are the row and column counts of the stored matrices, and
\* no call changes the shape of a stored matrix.
C4_ShapesInvariant ==
    /\ [](sys # NoSystem => ShapeInvariant(sys))
    /\ [][ (sys # NoSystem /\ sys' # NoSystem) => AllShapes(sys') = AllShapes(sys) ]_vars

\* An assignment to D has just succeeded on a non-square system.
C4_Witness ==
    /\ ret.op = "D.setter" /\ ret.raised = NoError
    /\ sys.n_r # sys.n_c /\ sys.m # sys.p

\* C8: a successful assignment to B, C or D replaces that matrix and
\* nothing else.
C8_OutputMatricesFrame ==
    [][ (ret'.raised = NoError /\ sys # NoSystem) =>
            /\ ret'.op = "B.setter" => sys' = [sys EXCEPT !.B = sys'.B]
            /\ ret'.op = "C.setter" => sys' = [sys EXCEPT !.C = sys'.C]
            /\ ret'.op = "D.setter" => sys' = [sys EXCEPT !.D = sys'.D] ]_vars

\* An assignment to B has just succeeded on a regular system that is no ODE.
C8_Witness ==
    /\ ret.op = "B.setter" /\ ret.raised = NoError
    /\ sys.isRegular /\ ~sys.isODE /\ sys.B = Full(sys.n_r, sys.m, 1)

---------------------------------------------------------------------------
(* A caller that replaces E (or A) and then assigns the original back:     *)
(*     M0 = system.E; system.E = M1; system.E = M0                         *)
(* It starts with any system the constructor returns.                      *)

\* Every system the constructor returns for the matrices callers pass, E
\* given or left out.
ConstructedSystems ==
    UNION { { NewSystem(A, B, C, D, E, "") :
                A \in StateMatrices(n_r, n_c),
                E \in StateMatrices(n_r, n_c) \cup {EmptyDefault},
                B \in IOMatrices(n_r, m),
                C \in IOMatrices(p, n_c),
                D \in IOMatrices(p, m) } :
            n_r \in Dims, n_c \in Dims, m \in Dims, p \in Dims }

InitRoundTrip ==
    /\ sys \in ConstructedSystems
    /\ ret = NoCall
    /\ caller = [kind |-> "script", pc |-> "start", which |-> "", first |-> sys, mid |-> sys]
    /\ plot = NoPlot

\* system.E = M1
ScriptAssignE ==
    /\ caller.pc = "start"
    /\ \E s \in Shapes : \E E \in StateArrays(s) :
        LET r == SetE(sys, E)
        IN  /\ sys' = r.self
            /\ ret' = [op |-> "E.setter", arg |-> s, raised |-> r.raised, value |-> None]
            /\ caller' = [caller EXCEPT !.pc = "assigned", !.which = "E", !.mid = r.self]
    /\ UNCHANGED plot

\* system.A = M1
ScriptAssignA ==
    /\ caller.pc = "start"
    /\ \E s \in Shapes : \E A \in StateArrays(s) :
        LET r == SetA(sys, A)
        IN  /\ sys' = r.self
            /\ ret' = [op |-> "A.setter", arg |-> s, raised |-> r.raised, value |-> None]
            /\ caller' = [caller EXCEPT !.pc = "assigned", !.which = "A", !.mid = r.self]
    /\ UNCHANGED plot

\* system.E = M0, or system.A = M0
ScriptRestore ==
    /\ caller.pc = "assigned"
    /\ LET r == IF caller.which = "E" THEN SetE(sys, caller.first.E)
                ELSE SetA(sys, caller.first.A)
       IN  /\ sys' = r.self
           /\ ret' = [op |-> IF caller.which = "E" THEN "E.setter" ELSE "A.setter",
                      arg |-> StoredShape(sys, ret.op), raised |-> r.raised, value |-> None]
    /\ caller' = [caller EXCEPT !.pc = "restored"]
    /\ UNCHANGED plot

NextRoundTrip ==
    \/ ScriptAssignE
    \/ ScriptAssignA
    \/ ScriptRestore

SpecRoundTrip == InitRoundTrip /\ [][NextRoundTrip]_vars

\* The triangular pencil s * E - A is singular: a diagonal entry of E and
\* the same entry of A are both 0.
SingularTriangularPencil(A, E) ==
    \E i \in 1..A.shape[1] : A.data[i][i] = 0 /\ E.data[i][i] = 0

---------------------------------------------------------------------------
(* Evaluation: a caller holds a constructed system, may replace its E and  *)
(* A, and evaluates it: tf, get_tf, eval_fr, eval_fr_range.  No evaluation *)
(* changes the system, so a behaviour ends with its first evaluation.      *)

\* The exponents of the ends of a sweep: with the frequencies 0.1, 1 and 10
\* the exact arithmetic of a 2-by-2 response stays within TLC's integers.
Exponents == {-1, 0, 1}

\* The largest number of points of a sweep.
MaxPoints == 3

\* The harmonic oscillator x'' = -x: its poles are j and -j.
Oscillator == [shape |-> <<2, 2>>, data |-> << <<0, 1>>, <<-1, 0>> >>]

\* The systems a caller evaluates: those constructed with all-ones B and C
\* (with B = 0 or C = 0 the transfer matrix is D at every frequency), E
\* given or left out, and the oscillator.
EvalSystems ==
    UNION { { NewSystem(A, Full(n_r, m, 1), Full(p, n_c, 1), D, E, "") :
                A \in StateMatrices(n_r, n_c) \cup
                      (IF n_r = 2 /\ n_c = 2 THEN {Oscillator} ELSE {}),
                E \in StateMatrices(n_r, n_c) \cup {EmptyDefault},
                D \in IOMatrices(p, m) } :
            n_r \in Dims, n_c \in Dims, m \in Dims, p \in Dims }

InitEval ==
    /\ sys \in EvalSystems
    /\ ret = NoCall
    /\ caller = NoCaller
    /\ plot = NoPlot

\* The system is as constructed or as an accepted assignment left it.
ReadyToEvaluate == ret.op \in {"", "E.setter", "A.setter"} /\ ret.raised = NoError

\* The systems evaluated hold finite arrays: the caller assigns no nan.
EvalAssignE == ReadyToEvaluate /\ AssignE /\ ~HasNaN(sys'.E)

EvalAssignA == ReadyToEvaluate /\ AssignA /\ ~HasNaN(sys'.A)

EvalTf == ReadyToEvaluate /\ CallTf

EvalGetTf == ReadyToEvaluate /\ CallGetTf

\* eval_fr(system, w)
CallEvalFr ==
    /\ ReadyToEvaluate
    /\ \E w \in SPoints :
        LET r == eval_fr(sys, w)
        IN  ret' = [op |-> "eval_fr", arg |-> w, raised |-> r.raised, value |-> r.value]
    /\ UNCHANGED <<sys, caller, plot>>

\* eval_fr_range(system, w_start, w_end, w_num_points)
CallEvalFrRange ==
    /\ ReadyToEvaluate
    /\ \E w_start \in Exponents, w_end \in Exponents, num \in -1..MaxPoints :
        /\ IntegralGrid(w_start, w_end, num)
        /\ LET r == eval_fr_range(sys, w_start, w_end, num)
           IN  ret' = [op |-> "eval_fr_range", arg |-> <<w_start, w_end, num>>,
                       raised |-> r.raised, value |-> r.value]
    /\ UNCHANGED <<sys, caller, plot>>

NextEval ==
    \/ EvalAssignE
    \/ EvalAssignA
    \/ EvalTf
    \/ EvalGetTf
    \/ CallEvalFr
    \/ CallEvalFrRange

SpecEval == InitEval /\ [][NextEval]_vars

---------------------------------------------------------------------------
(* Claims about evaluation, checked under SpecEval.  No evaluation changes *)
(* sys, so in the state after a call sys is the system that was evaluated  *)
(* and ret.arg the argument of the call.                                   *)

EvalOps == {"tf", "eval_fr", "eval_fr_range"}

\* C5: whenever isRegular is false, tf(s) raises the regularity error for
\* every s and returns no matrix, and get_tf() returns None; whenever
\* isRegular is true, get_tf() returns the bound method tf of the system.
C5_NotRegularNoTransferFunction ==
    /\ (ret.op = "tf" /\ ~sys.isRegular) =>
            /\ ret.raised = RegularityError
            /\ ret.value = None
    /\ (ret.op = "get_tf" /\ ~sys.isRegular) =>
            /\ ret.raised = NoError
            /\ ret.value = None
    /\ (ret.op = "get_tf" /\ sys.isRegular) =>
            /\ ret.raised = NoError
            /\ ret.value = BoundTf

\* get_tf() has returned None for a square system with a singular pencil.
C5_Witness ==
    /\ ret.op = "get_tf" /\ ret.value = None
    /\ sys.n_r = sys.n_c /\ ~sys.isRegular

\* C6: a system with n_r # n_c is neither an ODE nor regular in every
\* reachable state, whatever its matrices and whatever matrices of the same
\* shape are assigned to E or A, and tf, eval_fr and eval_fr_range raise
\* for it and return no value.
C6_NonSquareNeverRegular ==
    sys.n_r # sys.n_c =>
        /\ ~sys.isODE
        /\ ~sys.isRegular
        /\ ret.op \in EvalOps => (ret.raised # NoError /\ ret.value = None)
        /\ ret.op = "get_tf" => ret.value = None

\* A sweep of a 1-by-2 system whose A has a nonzero entry was refused.
C6_Witness ==
    /\ sys.n_r = 1 /\ sys.n_c = 2 /\ sys.A.data[1][1] = 1
    /\ ret.op = "eval_fr_range" /\ ret.arg = <<-1, 1, 3>>
    /\ ret.raised = FRError

\* C9: eval_fr and eval_fr_range raise their regularity error when
\* isRegular is false: the error is their own, not the one tf raises, so tf
\* was not called, and no magnitude or phase is returned.  For a regular
\* system, when tf(w) returns H, eval_fr returns the pair
\* (complex_to_dB(H), complex_to_deg(H)), and when tf(w) raises, eval_fr
\* raises the same.
C9_ResponseNeedsRegular ==
    /\ (ret.op \in {"eval_fr", "eval_fr_range"} /\ ~sys.isRegular) =>
            /\ ret.raised = FRError
            /\ ret.raised # RegularityError
            /\ ret.value = None
    /\ (ret.op = "eval_fr" /\ sys.isRegular) =>
            LET H == tf(sys, ret.arg)
            IN  IF H.raised = NoError
                THEN /\ ret.raised = NoError
                     /\ ret.value.kind = "tuple"
                     /\ ret.value.mag = complex_to_dB(H.value)
                     /\ ret.value.phase = complex_to_deg(H.value)
                     /\ \A i \in 1..sys.p, j \in 1..sys.m :
                            /\ ret.value.mag.data[i][j] = dB(H.value.data[i][j])
                            /\ ret.value.phase.data[i][j] = deg(H.value.data[i][j])
                ELSE /\ ret.raised = H.raised
                     /\ ret.value = None

\* eval_fr was refused for a square system with a singular pencil.
C9_Witness ==
    /\ ret.op = "eval_fr" /\ ret.arg = J
    /\ sys.n_r = sys.n_c /\ ~sys.isRegular
    /\ ret.raised = FRError

\* The k-th of num base-10 log-spaced frequencies from 10^start to 10^stop.
Frequency(start, stop, num, k) ==
    Pow10(IF num = 1 THEN start ELSE start + ((k - 1) * (stop - start)) \div (num - 1))

\* eval_fr(system, j * w_k)
PointResponse(system, start, stop, num, k) ==
    eval_fr(system, CMul(J, Frequency(start, stop, num, k)))

\* Both series of a returned sweep have num samples, the k-th equal to the
\* pair eval_fr returns at j * w_k.
SeriesMatchPoints(system, r, start, stop, num) ==
    /\ r.raised = NoError
    /\ r.value.kind = "tuple"
    /\ r.value.mag.shape = <<num, system.p, system.m>>
    /\ r.value.phase.shape = <<num, system.p, system.m>>
    /\ Len(r.value.mag.data) = num
    /\ Len(r.value.phase.data) = num
    /\ \A k \in 1..num :
        LET point == PointResponse(system, start, stop, num, k)
        IN  /\ point.raised = NoError
            /\ r.value.mag.data[k] = point.value.mag.data
            /\ r.value.phase.data[k] = point.value.phase.data

\* The frequencies of the sweep (-1, 1, 3) are 0.1, 1.0 and 10.0.
ExampleFrequencies ==
    /\ Frequency(-1, 1, 3, 1) = Cx(1, 0, 10)
    /\ Frequency(-1, 1, 3, 2) = Cx(1, 0, 1)
    /\ Frequency(-1, 1, 3, 3) = Cx(10, 0, 1)

\* C10 as stated: for a regular system and numPoints >= 1, eval_fr_range
\* returns magnitude and phase series of exactly numPoints samples, the
\* k-th equal to eval_fr(system, j * w_k) for the k-th of the numPoints
\* log-spaced frequencies from 10^startExp to 10^endExp.
C10_SweepAlwaysReturns ==
    (ret.op = "eval_fr_range" /\ sys.isRegular /\ ret.arg[3] >= 1) =>
        /\ ExampleFrequencies
        /\ SeriesMatchPoints(sys, ret, ret.arg[1], ret.arg[2], ret.arg[3])

\* C10 as amended: for a regular system and numPoints >= 1, when
\* E * j * w_k - A is invertible at every sample frequency w_k,
\* eval_fr_range returns series of exactly numPoints samples, the k-th
\* equal to eval_fr(system, j * w_k); when it is singular at some w_k the
\* sweep raises the error of numpy.linalg.inv and returns no series.
C10_SweepMatchesPointsAwayFromPoles ==
    (ret.op = "eval_fr_range" /\ sys.isRegular /\ ret.arg[3] >= 1) =>
        LET start == ret.arg[1]
            stop == ret.arg[2]
            num == ret.arg[3]
            Invertible(k) ==
                ~IsSingular(Pencil(sys.E, sys.A, CMul(J, Frequency(start, stop, num, k))),
                            sys.n_r)
        IN  /\ ExampleFrequencies
            /\ IF \A k \in 1..num : Invertible(k)
               THEN SeriesMatchPoints(sys, ret, start, stop, num)
               ELSE /\ ret.raised = LinAlgError
                    /\ ret.value = None

\* The sweep (-1, 1, 3) of a system whose response depends on frequency
\* has returned three samples, the first differing from the last.
C10_Witness ==
    /\ ret.op = "eval_fr_range" /\ ret.arg = <<-1, 1, 3>>
    /\ sys.isRegular /\ ret.raised = NoError
    /\ Len(ret.value.mag.data) = 3
    /\ ret.value.mag.data[1] # ret.value.mag.data[3]

\* x <= y for real numbers kept as fractions with positive den.
RealLeq(x, y) == x.re * y.den <= y.re * x.den

\* The frequencies the loop of an accepted sweep evaluates, and the k-th
\* returned sample being the response at the k-th of them.
SweepFrequencies == logspace(ret.arg[1], ret.arg[2], ret.arg[3])

SamplesFollowFrequencies ==
    \A k \in 1..ret.arg[3] :
        LET point == eval_fr(sys, complex(CZero, SweepFrequencies[k]))
        IN  /\ ret.value.mag.data[k] = point.value.mag.data
            /\ ret.value.phase.data[k] = point.value.phase.data

\* C11: for every (startExp, endExp, numPoints) that
\* eval_fr_range accepts, startExp > endExp included, the frequency
\* evaluated for index k is at most the frequency evaluated for index k+1.
C11_SweepAscending ==
    (ret.op = "eval_fr_range" /\ ret.raised = NoError) =>
        /\ SamplesFollowFrequencies
        /\ \A k \in 1..(ret.arg[3] - 1) :
            RealLeq(SweepFrequencies[k], SweepFrequencies[k + 1])

\* C12: a call of eval_fr_range on a regular system with numPoints < 1,
\* numPoints = 0 in particular, is rejected with an error and returns no
\* pair of arrays.
C12_SweepNeedsAPoint ==
    (ret.op = "eval_fr_range" /\ sys.isRegular /\ ret.arg[3] < 1) =>
        /\ ret.raised # NoError
        /\ ret.value = None

\* The n_c-by-m matrix X of a returned tf(s): inv(E * s - A) @ B.
StateResponse(self, s) ==
    matmul(inv(Pencil(self.E, self.A, s), self.n_r), ToComplex(self.B),
           self.n_r, self.n_r, self.m)

\* C13: for a regular system and an s at which E * s - A is invertible,
\* tf(s) returns the p-by-m matrix C * X + D, where X solves
\* (E * s - A) * X = B for the matrices stored at the time of the call; and
\* a call of tf changes nothing of the system.
C13_TfSolvesPencil ==
    /\ []((ret.op = "tf" /\ sys.isRegular
            /\ ~IsSingular(Pencil(sys.E, sys.A, ret.arg), sys.n_r)) =>
            LET X == StateResponse(sys, ret.arg)
            IN  /\ ret.raised = NoError
                /\ ret.value.shape = <<sys.p, sys.m>>
                /\ matmul(Pencil(sys.E, sys.A, ret.arg), X, sys.n_r, sys.n_c, sys.m)
                        = ToComplex(sys.B)
                /\ \A i \in 1..sys.p, j \in 1..sys.m :
                        ret.value.data[i][j]
                            = CAdd(matmul(ToComplex(sys.C), X, sys.p, sys.n_c, sys.m)[i][j],
                                   CInt(sys.D.data[i][j])))
    /\ [][ret'.op = "tf" => sys' = sys]_vars

\* tf(j) has returned for a regular 2-by-2 system with singular E, and its
\* value is not D.
C13_Witness ==
    /\ ret.op = "tf" /\ ret.arg = J /\ ret.raised = NoError
    /\ sys.n_r = 2 /\ sys.isRegular /\ ~sys.isODE
    /\ ret.value.data # ToComplex(sys.D)

---------------------------------------------------------------------------
(* Claims about the default E and the coercion to bool, checked under Spec. *)

\* C14: when E is omitted at construction the stored E is the identity of
\* A's shape, ones on the main diagonal and zeros elsewhere; the system is
\* an ODE and regular for every square A, and neither for every A that is
\* not square.
C14_DefaultEIsIdentity ==
    (ret.op = "__init__" /\ ret.raised = NoError /\ ~ret.arg.E_given) =>
        /\ sys.E.shape = sys.A.shape
        /\ \A i \in 1..sys.A.shape[1], j \in 1..sys.A.shape[2] :
                sys.E.data[i][j] = IF i = j THEN 1 ELSE 0
        /\ sys.n_r = sys.n_c => (sys.isODE /\ sys.isRegular)
        /\ sys.n_r # sys.n_c => (~sys.isODE /\ ~sys.isRegular)

\* A 2-by-2 system was constructed without E from the zero matrix A.
C14_Witness ==
    /\ ret.op = "__init__" /\ ret.raised = NoError /\ ~ret.arg.E_given
    /\ sys.A = Full(2, 2, 0)
    /\ sys.isODE /\ sys.isRegular

\* C15: in every reachable state bool(system) equals isRegular, so the
\* systems that coerce to true are exactly those whose get_tf() returns
\* the method and whose tf(s) does not raise the regularity error.
C15_BoolIsRegular ==
    ret.op = "__bool__" =>
        /\ ret.raised = NoError
        /\ ret.value.kind = "bool"
        /\ ret.value.value = sys.isRegular
        /\ ret.value.value <=> (get_tf(sys) = BoundTf)
        /\ ret.value.value <=> (\A s \in SPoints : tf(sys, s).raised # RegularityError)

\* bool(system) was False for a square system whose E is not the zero
\* matrix.
C15_Witness ==
    /\ ret.op = "__bool__" /\ ret.value.kind = "bool" /\ ~ret.value.value
    /\ sys.n_r = 2 /\ sys.n_c = 2
    /\ sys.E # Full(2, 2, 0)

---------------------------------------------------------------------------
(* BodePlot: the plot object and add_system.                               *)

DimensionError == "To produce a combined figure, BodePlot class can only contain systems that have the same number of inputs and outputs."

\* BodePlot(): no system, no style, no tick, p = m = -1.
NewPlot ==
    [kind |-> "BodePlot", systems |-> <<>>, line_styles |-> <<>>, data_ticks |-> <<>>,
     p |-> -1, m |-> -1]

\* A Python string as an object passed around.
Str(value) == [kind |-> "str", value |-> value]

\* str(linewidth) of the line widths callers pass: 1.5 (the default) and 2.
str(linewidth) ==
    CASE linewidth = [num |-> 3, den |-> 2] -> "1.5"
      [] linewidth = [num |-> 2, den |-> 1] -> "2.0"

\* style_dict: the options that are not None, the width as a string.
StyleDict(color, linestyle, linewidth) ==
    [k \in {x \in {"color", "linestyle", "linewidth"} :
                \/ x = "color" /\ color # None
                \/ x = "linestyle" /\ linestyle # None
                \/ x = "linewidth" /\ linewidth # None} |->
        CASE k = "color" -> color
          [] k = "linestyle" -> linestyle
          [] k = "linewidth" -> Str(str(linewidth))]

\* self.systems.append(system); self.line_styles.append(style_dict)
AppendSystem(self, system, color, linestyle, linewidth) ==
    [self EXCEPT !.systems = Append(@, system),
                 !.line_styles = Append(@, StyleDict(color, linestyle, linewidth))]

\* Adding one system whatever its p and m.
AddOne_Unchecked(self, system, color, linestyle, linewidth) ==
    IF Len(self.systems) = 0
    THEN [raised |-> NoError,
          self |-> AppendSystem([self EXCEPT !.p = system.p, !.m = system.m],
                                system, color, linestyle, linewidth)]
    ELSE [raised |-> NoError,
          self |-> AppendSystem(self, system, color, linestyle, linewidth)]

\* What add_system does with one LinearDAE: the first system of the plot
\* sets p and m, a later one must match them.
AddOne(self, system, color, linestyle, linewidth) ==
    IF Len(self.systems) = 0
    THEN [raised |-> NoError,
          self |-> AppendSystem([self EXCEPT !.p = system.p, !.m = system.m],
                                system, color, linestyle, linewidth)]
    ELSE IF ~(system.p = self.p) \/ ~(system.m = self.m)
    THEN [raised |-> DimensionError, self |-> self]
    ELSE [raised |-> NoError,
          self |-> AppendSystem(self, system, color, linestyle, linewidth)]

\* isinstance(x, LinearDAE)
IsLinearDAE(x) == x.kind = "LinearDAE"

\* The loop of the list branch from element i on: an element that is not a
\* LinearDAE is passed over, an exception ends the loop.
RECURSIVE AddList(_, _, _, _, _, _)
AddList(self, items, i, color, linestyle, linewidth) ==
    IF i > Len(items) THEN [raised |-> NoError, self |-> self]
    ELSE IF ~IsLinearDAE(items[i])
    THEN AddList(self, items, i + 1, color, linestyle, linewidth)
    ELSE LET r == AddOne(self, items[i], color, linestyle, linewidth)
         IN  IF r.raised # NoError THEN r
             ELSE AddList(r.self, items, i + 1, color, linestyle, linewidth)

\* self.add_system(systems, color, linestyle, linewidth): a list, one
\* LinearDAE, or anything else, which is ignored.
add_system(self, systems, color, linestyle, linewidth) ==
    IF systems.kind = "list"
    THEN AddList(self, systems.items, 1, color, linestyle, linewidth)
    ELSE IF IsLinearDAE(systems)
    THEN AddOne(self, systems, color, linestyle, linewidth)
    ELSE [raised |-> NoError, self |-> self]

TickError == "Can't add the data tick - either frequency is not a positive number, or specified system with specified input and output does not exist."

\* DataTick(at_frequency, pin_to_system_num, pin_to_output_num,
\* pin_to_input_num, color, marker, markersize)
DataTick(at_frequency, pin_to_system_num, pin_to_output_num, pin_to_input_num, color, marker, markersize) ==
    [kind |-> "DataTick", w |-> at_frequency, sys_num |-> pin_to_system_num,
     p |-> pin_to_output_num, m |-> pin_to_input_num,
     color |-> color, marker |-> marker, markersize |-> markersize]

\* self.add_data_tick(...): the tick is stored when the frequency is
\* positive, the system number is an index of self.systems, and the output
\* and input numbers are in 1..p and 1..m; otherwise ValueError.
add_data_tick(self, at_frequency, pin_to_system_num, pin_to_output_num, pin_to_input_num, color, marker, markersize) ==
    IF \/ ~(at_frequency > 0)
       \/ pin_to_system_num \notin 0..(Len(self.systems) - 1)
       \/ pin_to_output_num \notin 1..self.p
       \/ pin_to_input_num \notin 1..self.m
    THEN [raised |-> TickError, self |-> self]
    ELSE [raised |-> NoError,
          self |-> [self EXCEPT !.data_ticks =
                       Append(@, DataTick(at_frequency, pin_to_system_num, pin_to_output_num,
                                          pin_to_input_num, color, marker, markersize))]]

---------------------------------------------------------------------------
(* Plotting: a caller holds a plot, adds systems and lists to it, and pins *)
(* data ticks to the systems it holds.                                     *)

\* The longest list passed to add_system, and the number of systems a plot
\* holds before the caller stops adding.
MaxList == 2

MaxSystems == 3

\* The LinearDAE objects a caller adds: one for each (p, m), constant gain.
PlotSystems ==
    { NewSystem(Full(1, 1, 0), Full(1, m, 0), Full(p, 1, 0), Full(p, m, 1), EmptyDefault, "") :
        p \in Dims, m \in Dims }

\* What a list may hold: LinearDAE objects and other objects, here a string.
ListItems == PlotSystems \cup {Str("G")}

Lists == UNION { [1..n -> ListItems] : n \in 0..MaxList }

\* What is passed as systems: a list, one LinearDAE, or None.
SystemsArguments ==
    {[kind |-> "list", items |-> l] : l \in Lists} \cup PlotSystems \cup {None}

\* The style options passed along: none, a color with the default width,
\* a line style with another width.
Styles ==
    { [color |-> None, linestyle |-> None, linewidth |-> None],
      [color |-> Str("r"), linestyle |-> None, linewidth |-> [num |-> 3, den |-> 2]],
      [color |-> None, linestyle |-> Str("--"), linewidth |-> [num |-> 2, den |-> 1]] }

\* The number of LinearDAE objects in what is passed as systems.
Offered(systems) ==
    IF systems.kind = "list"
    THEN Cardinality({i \in 1..Len(systems.items) : IsLinearDAE(systems.items[i])})
    ELSE IF IsLinearDAE(systems) THEN 1 ELSE 0

InitPlot ==
    /\ sys = NoSystem
    /\ ret = NoCall
    /\ caller = NoCaller
    /\ plot = NewPlot

\* plot.add_system(systems, color, linestyle, linewidth); ret.arg keeps the
\* kind of object passed as systems.
CallAddSystem ==
    /\ plot # NoPlot
    /\ \E systems \in SystemsArguments, style \in Styles :
        LET r == add_system(plot, systems, style.color, style.linestyle, style.linewidth)
        IN  /\ Len(plot.systems) + Offered(systems) <= MaxSystems
            /\ plot' = r.self
            /\ ret' = [op |-> "add_system", arg |-> systems.kind, raised |-> r.raised,
                       value |-> None]
    /\ UNCHANGED <<sys, caller>>

\* The number of data ticks a plot holds before the caller stops adding.
MaxTicks == 1

\* The markers passed along: the defaults, and a marker of another color,
\* shape and size.
DefaultMarker == [color |-> Str("k"), marker |-> Str("x"), markersize |-> 6]

OtherMarker == [color |-> Str("g"), marker |-> Str("o"), markersize |-> 8]

\* The calls a caller makes: add_data_tick(1) with every default, then one
\* call for each condition of the check (frequency 0, the second system,
\* the second output, the second input), the last with another marker.
TickArguments ==
    { [w |-> 1, sys_num |-> 0, p |-> 1, m |-> 1, style |-> DefaultMarker],
      [w |-> 0, sys_num |-> 0, p |-> 1, m |-> 1, style |-> DefaultMarker],
      [w |-> 1, sys_num |-> 1, p |-> 1, m |-> 1, style |-> DefaultMarker],
      [w |-> 1, sys_num |-> 0, p |-> 2, m |-> 1, style |-> DefaultMarker],
      [w |-> 1, sys_num |-> 0, p |-> 1, m |-> 2, style |-> OtherMarker] }

\* plot.add_data_tick(at_frequency, pin_to_system_num, pin_to_output_num,
\* pin_to_input_num, color, marker, markersize); ret.arg keeps the system
\* number passed.
CallAddDataTick ==
    /\ plot # NoPlot
    /\ Len(plot.data_ticks) < MaxTicks
    /\ \E t \in TickArguments :
        LET r == add_data_tick(plot, t.w, t.sys_num, t.p, t.m,
                               t.style.color, t.style.marker, t.style.markersize)
        IN  /\ plot' = r.self
            /\ ret' = [op |-> "add_data_tick", arg |-> t.sys_num, raised |-> r.raised,
                       value |-> None]
    /\ UNCHANGED <<sys, caller>>

NextPlot ==
    \/ CallAddSystem
    \/ CallAddDataTick

SpecPlot == InitPlot /\ [][NextPlot]_vars

---------------------------------------------------------------------------
(* Claims about BodePlot.add_system, checked under SpecPlot.               *)

\* Every stored system is a LinearDAE with the p and m of the plot.
StoredSystemsMatchPlot ==
    \A i \in 1..Len(plot.systems) :
        /\ IsLinearDAE(plot.systems[i])
        /\ plot.systems[i].p = plot.p
        /\ plot.systems[i].m = plot.m

\* The plot's p and m are -1 while it is empty, and it has one style for
\* each system.
PlotConsistent ==
    /\ StoredSystemsMatchPlot
    /\ Len(plot.systems) = 0 => (plot.p = -1 /\ plot.m = -1)
    /\ Len(plot.line_styles) = Len(plot.systems)

\* A step keeps the systems stored, and p and m once a system is stored.
PlotOnlyGrows ==
    /\ Len(plot.systems) > 0 => (plot'.p = plot.p /\ plot'.m = plot.m)
    /\ Len(plot'.systems) >= Len(plot.systems)
    /\ SubSeq(plot'.systems, 1, Len(plot.systems)) = plot.systems

\* C16: after any sequence of add_system calls, with single systems or
\* lists, returning or raising, every stored system has the p and m of the
\* plot, which are those of the first system ever added (and -1 before
\* that) and never change afterwards; no stored system is removed; and
\* line_styles is as long as systems.
C16_PlotKeepsOneShape ==
    /\ []PlotConsistent
    /\ [][PlotOnlyGrows]_vars

\* A list whose second system differs in (p, m) from the plot was refused
\* by a plot for two outputs and one input.
C16_Witness ==
    /\ ret.op = "add_system" /\ ret.arg = "list" /\ ret.raised = DimensionError
    /\ plot.p = 2 /\ plot.m = 1
    /\ Len(plot.systems) = 2

\* C20: a call of add_system that raises leaves systems, line_styles, p
\* and m of the plot as they were before the call; no earlier element of
\* the list passed has been stored.
C20_AddSystemAllOrNothing ==
    [][(ret'.op = "add_system" /\ ret'.raised # NoError) =>
        /\ plot'.systems = plot.systems
        /\ plot'.line_styles = plot.line_styles
        /\ plot'.p = plot.p
        /\ plot'.m = plot.m]_vars

---------------------------------------------------------------------------
(* The E and A setters statement by statement.  Between two statements of  *)
(* a setter another thread may call the object, and a statement that       *)
(* raises ends the setter where it stands.                                 *)

\* The setter in progress: the statement it executes next.
Idle == [kind |-> "setter", pc |-> "idle"]

InitSteps ==
    /\ sys \in EvalSystems
    /\ ret = NoCall
    /\ caller = Idle
    /\ plot = NoPlot

\* system.E = E, up to and including self._E = E.
BeginSetE ==
    /\ caller.pc = "idle"
    /\ \E s \in Shapes : \E E \in AssignedArrays(s) :
        IF sys.E.shape = E.shape
        THEN /\ sys' = [sys EXCEPT !.E = E]
             /\ caller' = [caller EXCEPT !.pc = "E.isODE"]
             /\ ret' = ret
        ELSE /\ ret' = Raised("E.setter", s, ShapeError)
             /\ UNCHANGED <<sys, caller>>
    /\ UNCHANGED plot

\* The E setter's assignment to self._isODE.
SetE_IsODE ==
    /\ caller.pc = "E.isODE"
    /\ sys' = StatementIsODE(sys)
    /\ caller' = [caller EXCEPT !.pc = "E.isRegular"]
    /\ UNCHANGED <<ret, plot>>

\* The E setter's assignment to self._isRegular, which ends the setter.
SetE_IsRegular ==
    /\ caller.pc = "E.isRegular"
    /\ LET r == StatementIsRegular(sys)
       IN  /\ sys' = r.self
           /\ ret' = [op |-> "E.setter", arg |-> sys.E.shape, raised |-> r.raised,
                      value |-> None]
    /\ caller' = [caller EXCEPT !.pc = "idle"]
    /\ UNCHANGED plot

\* system.A = A, up to and including self._A = A.
BeginSetA ==
    /\ caller.pc = "idle"
    /\ \E s \in Shapes : \E A \in AssignedArrays(s) :
        IF sys.A.shape = A.shape
        THEN /\ sys' = [sys EXCEPT !.A = A]
             /\ caller' = [caller EXCEPT !.pc = "A.isRegular"]
             /\ ret' = ret
        ELSE /\ ret' = Raised("A.setter", s, ShapeError)
             /\ UNCHANGED <<sys, caller>>
    /\ UNCHANGED plot

\* The A setter's assignment to self._isRegular, which ends the setter.
SetA_IsRegular ==
    /\ caller.pc = "A.isRegular"
    /\ LET r == StatementIsRegular(sys)
       IN  /\ sys' = r.self
           /\ ret' = [op |-> "A.setter", arg |-> sys.A.shape, raised |-> r.raised,
                      value |-> None]
    /\ caller' = [caller EXCEPT !.pc = "idle"]
    /\ UNCHANGED plot

\* Another thread's call between two statements of the setter, or the
\* caller's own call once the setter has returned or raised: here
\* bool(system), which reads the flag that tf and get_tf read.
InterleavedCall ==
    /\ ret.op # "__bool__"
    /\ ret' = Returned("__bool__", caller.pc, [kind |-> "bool", value |-> bool(sys)])
    /\ UNCHANGED <<sys, caller, plot>>

NextSteps ==
    \/ BeginSetE
    \/ SetE_IsODE
    \/ SetE_IsRegular
    \/ BeginSetA
    \/ SetA_IsRegular
    \/ InterleavedCall

SpecSteps == InitSteps /\ [][NextSteps]_vars

\* The flags as the statements of the setters derive them from the stored
\* E and A.
FlagsDerivedFromStored(self) ==
    LET ode == StatementIsODE(self).isODE
        r == StatementIsRegular([self EXCEPT !.isODE = ode])
    IN  /\ self.isODE = ode
        /\ r.raised = NoError
        /\ self.isRegular = r.self.isRegular

\* C17: replacing E or A is atomic for the derived flags: in no state that
\* another operation can observe, between the statements of a setter or
\* after a setter has raised in its determinant or eigenvalue computation,
\* is the new matrix stored while isODE or isRegular are still those
\* derived from the old one; what a call reads there is the flag of the
\* stored matrices.
C17_SettersAtomic ==
    /\ FlagsDerivedFromStored(sys)
    /\ ret.op = "__bool__" =>
            ret.value.value = StatementIsRegular(StatementIsODE(sys)).self.isRegular

---------------------------------------------------------------------------
(* A caller keeps what get_tf() returned, assigns to E and A, and then     *)
(* calls what it kept.                                                     *)

\* The kept method evaluating the object as it was when get_tf() returned.
HeldTf_Snapshot(obtained, self, s) == tf(obtained, s)

\* transfer_func(s) for transfer_func = system.get_tf(): the method is
\* bound to the object, not to its state, and runs tf on the object as it
\* is when called.
HeldTf(obtained, self, s) == tf(self, s)

InitHeld ==
    /\ sys \in EvalSystems
    /\ ret = NoCall
    /\ caller = NoCaller
    /\ plot = NoPlot

\* transfer_func = system.get_tf()
ObtainEvaluator ==
    /\ caller = NoCaller
    /\ ret' = Returned("get_tf", None, get_tf(sys))
    /\ caller' = [kind |-> "holds", transfer_func |-> get_tf(sys), obtained |-> sys]
    /\ UNCHANGED <<sys, plot>>

\* The caller holds a method, not None, and has not called it yet.
HoldsMethod ==
    /\ caller # NoCaller
    /\ caller.transfer_func = BoundTf
    /\ ret.op # "transfer_func"

\* The caller assigns finite arrays.
HeldAssignE == HoldsMethod /\ AssignE /\ ~HasNaN(sys'.E)

HeldAssignA == HoldsMethod /\ AssignA /\ ~HasNaN(sys'.A)

\* transfer_func(s)
CallHeld ==
    /\ HoldsMethod
    /\ \E s \in SPoints :
        LET r == HeldTf(caller.obtained, sys, s)
        IN  ret' = [op |-> "transfer_func", arg |-> s, raised |-> r.raised,
                    value |-> r.value]
    /\ UNCHANGED <<sys, caller, plot>>

NextHeld ==
    \/ ObtainEvaluator
    \/ HeldAssignE
    \/ HeldAssignA
    \/ CallHeld

SpecHeld == InitHeld /\ [][NextHeld]_vars

\* C18: a method obtained from get_tf() while the system was regular
\* raises the regularity error, and returns nothing, when it is called
\* after E or A has been replaced so that isRegular is false; while the
\* system is regular it evaluates with the matrices stored when it is
\* called, not with those stored when get_tf() returned.
C18_HeldMethodFollowsSystem ==
    ret.op = "transfer_func" =>
        /\ caller.obtained.isRegular
        /\ ~sys.isRegular => (ret.raised = RegularityError /\ ret.value = None)
        /\ sys.isRegular =>
            IF IsSingular(Pencil(sys.E, sys.A, ret.arg), sys.n_r)
            THEN ret.raised = LinAlgError /\ ret.value = None
            ELSE ret.raised = NoError /\ ret.value = TransferMatrix(sys, ret.arg)

\* The method was obtained from a regular system and called after an
\* assignment had made the system non-regular.
C18_Witness ==
    /\ ret.op = "transfer_func" /\ ret.raised = RegularityError
    /\ caller.obtained.isRegular /\ ~sys.isRegular
    /\ sys.n_r = 2

---------------------------------------------------------------------------
(* A caller keeps a reference to an array of the system and writes to it.  *)
(* __init__ and the setters store the array they are passed, and the       *)
(* getters return the array stored, each without a copy: the array the     *)
(* caller holds and the array the system holds are one object.             *)

MatrixNames == {"E", "A", "B", "C", "D"}

InitAlias ==
    /\ sys \in EvalSystems
    /\ ret = NoCall
    /\ caller = NoCaller
    /\ plot = NoPlot

\* M = system.X for X among E, A, B, C, D (or M is the array that was
\* passed as X): the caller now holds the stored array itself.
KeepReference ==
    /\ caller = NoCaller
    /\ \E X \in MatrixNames :
        /\ caller' = [kind |-> "reference", to |-> X, system |-> sys]
        /\ ret' = Returned("getter", X, sys[X])
    /\ UNCHANGED <<sys, plot>>

\* M[i, j] = v on the array the caller holds: the write lands in the
\* stored array; no code of LinearDAE runs.
WriteInPlace ==
    /\ caller # NoCaller
    /\ ret.op \in {"getter", "ndarray.__setitem__"}
    /\ \E i \in 1..sys[caller.to].shape[1], j \in 1..sys[caller.to].shape[2], v \in Vals :
        /\ sys' = [sys EXCEPT ![caller.to].data[i][j] = v]
        /\ ret' = Returned("ndarray.__setitem__", <<i, j, v>>, None)
    /\ UNCHANGED <<caller, plot>>

\* system.tf(s) after the writes.
AliasTf ==
    /\ ret.op = "ndarray.__setitem__"
    /\ CallTf

NextAlias ==
    \/ KeepReference
    \/ WriteInPlace
    \/ AliasTf

SpecAlias == InitAlias /\ [][NextAlias]_vars

\* C19: the stored matrices change only through the setters: writing in
\* place to an array that was passed to the constructor or a setter, or
\* that a getter returned, leaves the matrices of the system as they were,
\* so isODE and isRegular describe the E and A that tf uses.
C19_StoredMatricesArePrivate ==
    caller # NoCaller =>
        /\ \A X \in MatrixNames : sys[X] = caller.system[X]
        /\ sys.isODE = ComputeIsODE(sys.n_r, sys.n_c, sys.E)
        /\ sys.isRegular = ComputeIsRegular(sys.isODE, sys.n_r, sys.n_c, sys.A, sys.E)

=============================================================================
